---- MODULE Spec2Model ----
(***************************************************************************)
(* A model of keyword_main.py: the page fetchers, the TF-IDF keyword       *)
(* extractor, the search call, the suggestion engine and main().           *)
(*                                                                         *)
(* Texts are sequences of one-character strings.  Keywords are texts too.  *)
(***************************************************************************)
EXTENDS Integers, Sequences, FiniteSets, TLC

VARIABLES
    pc,                   \* position of the process in the module / in main()
    API_KEY,              \* module global, line 9
    SEARCH_ENGINE_ID,     \* module global, line 10
    stopwords_present,    \* whether the nltk stopwords corpus is on disk
    blog_url,             \* main(): local
    blog_text,            \* main(): local
    existing_keywords,    \* main(): local
    blog_topic,           \* main(): local
    related_blog_urls,    \* main(): local
    idx,                  \* main(): position of the for loop of line 145
    related_keywords_all, \* main(): local
    new_suggestions,      \* main(): local
    log,                  \* history: network calls, prints, extractions, appends
    args,                 \* arguments of a stand-alone call of a function
    ret                   \* what that call returned

vars == <<pc, API_KEY, SEARCH_ENGINE_ID, stopwords_present, blog_url, blog_text,
          existing_keywords, blog_topic, related_blog_urls, idx,
          related_keywords_all, new_suggestions, log, args, ret>>

-----------------------------------------------------------------------------
(* Bounds of the model *)

\* longest search result list
MaxResults == 2
\* longest text given to a stand-alone extract_keywords call
MaxTextLen == 8
\* stand-alone extract_keywords calls take top_n in -MaxTopN .. MaxTopN
MaxTopN == 2
\* longest keyword list given to a stand-alone suggest_new_keywords call
MaxKws == 2
\* most keyword lists given to a stand-alone suggest_new_keywords call
MaxBlogs == 2

-----------------------------------------------------------------------------
(* Characters and texts *)

\* The characters of the model, in code point order (Python compares strings
\* by code point: space < digits and punctuation used here < upper < lower).
OrderedChars == <<" ", ".", "1", "S", "T", "a", "e", "i", "o", "p", "s", "t">>

Chars == {OrderedChars[i] : i \in 1..Len(OrderedChars)}

UpperChars == {"S", "T"}

LowerChars == {"a", "e", "i", "o", "p", "s", "t"}

\* str.lower() on one character
LowerChar(c) == CASE c = "S" -> "s" [] c = "T" -> "t" [] OTHER -> c

\* what [^a-zA-Z ] does not match
IsKept(c) == c \in UpperChars \cup LowerChars \cup {" "}

IsSpace(c) == c = " "

Rank(c) == CHOOSE i \in 1..Len(OrderedChars) : OrderedChars[i] = c

\* s * n
Rep(s, n) == [i \in 1..(n * Len(s)) |-> s[((i - 1) % Len(s)) + 1]]

RECURSIVE Join(_)
\* ' '.join(parts)
Join(parts) ==
    IF parts = <<>> THEN <<>>
    ELSE IF Len(parts) = 1 THEN parts[1]
    ELSE parts[1] \o <<" ">> \o Join(Tail(parts))

\* str.strip()
Strip(s) ==
    LET inked == {i \in 1..Len(s) : ~IsSpace(s[i])}
    IN IF inked = {} THEN <<>>
       ELSE SubSeq(s, CHOOSE i \in inked : \A j \in inked : i <= j,
                      CHOOSE i \in inked : \A j \in inked : j <= i)

\* s < t for Python strings
LexLess(s, t) ==
    LET differ == {i \in 1..Len(s) : i <= Len(t) /\ s[i] # t[i]}
    IN IF differ = {} THEN Len(s) < Len(t)
       ELSE LET d == CHOOSE i \in differ : \A j \in differ : i <= j
            IN Rank(s[d]) < Rank(t[d])

SeqToSet(s) == {s[i] : i \in 1..Len(s)}

-----------------------------------------------------------------------------
(* extract_keywords *)

\* re.sub('[^a-zA-Z ]', '', text).lower()
Preprocess(text) ==
    LET kept == SelectSeq(text, IsKept)
    IN [i \in 1..Len(kept) |-> LowerChar(kept[i])]

\* A subset of nltk's English stopword list: its words of two or more
\* letters that the model's characters spell.
StopWords == {<<"a", "s">>, <<"a", "t">>, <<"i", "s">>, <<"i", "t">>,
              <<"i", "t", "s">>, <<"s", "o">>, <<"t", "o">>, <<"t", "o", "o">>}

\* The maximal runs of letters of a preprocessed text, in order.
Words(s) ==
    LET starts == {i \in 1..Len(s) : ~IsSpace(s[i]) /\ (i = 1 \/ IsSpace(s[i - 1]))}
        ends == {i \in 1..Len(s) : ~IsSpace(s[i]) /\ (i = Len(s) \/ IsSpace(s[i + 1]))}
        nth(S, k) == CHOOSE i \in S : Cardinality({j \in S : j <= i}) = k
    IN [k \in 1..Cardinality(starts) |-> SubSeq(s, nth(starts, k), nth(ends, k))]

IsToken(w) == Len(w) >= 2

NotStopWord(w) == w \notin StopWords

\* TfidfVectorizer's analyzer: token_pattern \b\w\w+\b, then the stop words
\* are dropped.
Tokens(s) == SelectSeq(SelectSeq(Words(s), IsToken), NotStopWord)

\* ngram_range=(1,2): the tokens, then every two adjacent tokens joined by a
\* space.
Ngrams(toks) ==
    toks \o [i \in 1..(IF Len(toks) = 0 THEN 0 ELSE Len(toks) - 1) |->
                toks[i] \o <<" ">> \o toks[i + 1]]

\* How often term occurs among the n-grams of a preprocessed text.  With one
\* document every idf is 1 and the l2 norm divides every count by the same
\* positive number, so the tf-idf scores order as the counts do.
Score(term, s) ==
    LET g == Ngrams(Tokens(s))
    IN Cardinality({i \in 1..Len(g) : g[i] = term})

RECURSIVE SortedNames(_)
\* get_feature_names_out(): the vocabulary in ascending string order
SortedNames(S) ==
    IF S = {} THEN <<>>
    ELSE LET m == CHOOSE x \in S : \A y \in S \ {x} : LexLess(x, y)
         IN <<m>> \o SortedNames(S \ {m})

RECURSIVE SortedByScore(_, _)
\* sorted(..., key=score, reverse=True): stable, so equal scores keep the
\* order of names
SortedByScore(names, s) ==
    IF names = <<>> THEN <<>>
    ELSE LET best == CHOOSE i \in 1..Len(names) :
                        /\ \A j \in 1..Len(names) :
                              Score(names[j], s) <= Score(names[i], s)
                        /\ \A j \in 1..(i - 1) :
                              Score(names[j], s) < Score(names[i], s)
             rest == [j \in 1..(Len(names) - 1) |->
                        IF j < best THEN names[j] ELSE names[j + 1]]
         IN <<names[best]>> \o SortedByScore(rest, s)

\* keywords[:top_n]
SliceTo(keywords, top_n) ==
    IF top_n >= 0
    THEN SubSeq(keywords, 1, IF top_n < Len(keywords) THEN top_n ELSE Len(keywords))
    ELSE SubSeq(keywords, 1, IF Len(keywords) + top_n > 0
                             THEN Len(keywords) + top_n ELSE 0)

\* fit_transform raises ValueError ("empty vocabulary") when no token is left
RaisesValueError(s) == Tokens(s) = <<>>

\* def extract_keywords(text, top_n=20), the stopwords corpus being present
extract_keywords(text, top_n) ==
    LET s == Preprocess(text)
    IN IF Strip(s) = <<>> THEN <<>>
       ELSE IF RaisesValueError(s) THEN <<>>
       ELSE SliceTo(SortedByScore(SortedNames(SeqToSet(Ngrams(Tokens(s)))), s),
                    top_n)

-----------------------------------------------------------------------------
(* suggest_new_keywords *)

\* set(existing_keywords), and all_related after the loop of lines 102-103
RECURSIVE all_related(_)
all_related(related_blogs_keywords) ==
    IF related_blogs_keywords = <<>> THEN {}
    ELSE SeqToSet(related_blogs_keywords[1])
            \cup all_related(Tail(related_blogs_keywords))

\* a mutant: the difference is forgotten
new_keywords_no_difference(existing, related_blogs_keywords) ==
    all_related(related_blogs_keywords)

\* a mutant: the difference is taken the wrong way round
new_keywords_swapped(existing, related_blogs_keywords) ==
    SeqToSet(existing) \ all_related(related_blogs_keywords)

\* new_keywords = all_related - existing_set
new_keywords(existing, related_blogs_keywords) ==
    all_related(related_blogs_keywords) \ SeqToSet(existing)

\* list(s): the elements of a set, each once, in an order the hashing picks
ListsOf(S) ==
    {l \in [1..Cardinality(S) -> S] : \A x \in S : \E i \in DOMAIN l : l[i] = x}

\* def suggest_new_keywords: every list it may return
suggest_new_keywords(existing, related_blogs_keywords) ==
    ListsOf(new_keywords(existing, related_blogs_keywords))

-----------------------------------------------------------------------------
(* The web: what a GET may answer *)

PLACEHOLDER_KEY == "PASTE_YOUR_API_KEY_HERE"

PLACEHOLDER_CX == "PASTE_YOUR_CX_ID_HERE"

\* The values a user may leave in the two globals: the placeholder or a
\* credential.
KeyValues == {PLACEHOLDER_KEY, "AIza-key"}

CxValues == {PLACEHOLDER_CX, "80a2-cx"}

Urls == {"https://blog.example/post", "https://rival.example/seo"}

\* the default of top_n (line 30) and the least trimmed length of a competitor
\* text (line 152)
DEFAULT_TOP_N == 20

MIN_CONTENT_LEN == 100

Seo == <<"s", "e", "o">>

Tips == <<"T", "i", "p", "s", " ">>

To == <<"t", "o", " ">>

\* The pages of the model: the texts of the <p> elements and of <title>.
Pages == {
    \* no <p>, no <title>
    [paragraphs |-> <<>>, title |-> <<>>],
    \* two empty <p>: the text is one space
    [paragraphs |-> <<<<>>, <<>>>>, title |-> Seo],
    \* 100 characters, 99 after trimming: one word
    [paragraphs |-> <<<<>>, Rep(Seo, 33)>>, title |-> Seo],
    \* exactly 100 characters after trimming: one word
    [paragraphs |-> <<Rep(Seo, 33) \o <<"s">>>>, title |-> <<>>],
    \* 106 characters: "tips" over and over
    [paragraphs |-> <<Rep(Tips, 20), <<"T", "i", "p", "s", ".">>>>,
     title |-> Seo],
    \* 103 characters: stop words, then "tips"
    [paragraphs |-> <<Rep(To, 33) \o <<"t", "i", "p", "s">>>>, title |-> <<>>],
    \* 100 digits: nothing is left after preprocessing
    [paragraphs |-> <<Rep(<<"1">>, 100)>>, title |-> <<>>],
    \* 101 characters after trimming: stop words only
    [paragraphs |-> <<Rep(To, 34)>>, title |-> Seo]
}

\* What requests.get and the parsing after it may do: raise a
\* requests.RequestException (no connection, a timeout, a non-2xx status from
\* raise_for_status), raise any other exception, or give a page.
Responses ==
    {[kind |-> "request_exception"], [kind |-> "other_exception"]}
        \cup {[kind |-> "page", page |-> p] : p \in Pages}

\* def fetch_blog_text(url), lines 19-28: the text returned when the GET
\* answers r (r not of kind other_exception, which propagates)
fetch_blog_text(r) ==
    IF r.kind = "request_exception" THEN <<>> ELSE Join(r.page.paragraphs)

\* def fetch_blog_title(url), lines 51-59
fetch_blog_title(r) ==
    IF r.kind = "request_exception" THEN <<>> ELSE r.page.title

\* a mutant: the URL is left out of the fallback query
FallbackTopic_without_url(url) == <<"related topics for ", "">>

\* "related topics for " + blog_url, kept as a pair
FallbackTopic(url) == <<"related topics for ", url>>

RECURSIVE SeqsUpTo(_, _)
\* the sequences over S of length at most n
SeqsUpTo(S, n) ==
    IF n = 0 THEN {<<>>}
    ELSE LET shorter == SeqsUpTo(S, n - 1)
         IN shorter \cup {Append(q, x) : q \in {t \in shorter : Len(t) = n - 1}, x \in S}

\* What the search GET may answer: no response at all (the GET raises), a
\* non-2xx status, a body that is not JSON, JSON without 'items', or items.
SearchResponses ==
    {[kind |-> "no_response"], [kind |-> "http_error"], [kind |-> "bad_json"],
     [kind |-> "no_items"]}
        \cup {[kind |-> "items", links |-> l] : l \in SeqsUpTo(Urls, MaxResults)}

-----------------------------------------------------------------------------
(* The history *)

\* a network call: a download or a GET, and the kind of answer it got
Net(kind, url, answer) == [ev |-> "net", kind |-> kind, url |-> url, answer |-> answer]

\* a print to standard output
Out(what, val) == [ev |-> "print", what |-> what, val |-> val]

\* a call of extract_keywords
Extracted(text) == [ev |-> "extract", text |-> text]

\* fn(arg) returned val; i is 0 in the straight part of main() and the
\* position in related_blog_urls inside the loop
Returned(fn, i, arg, val) ==
    [ev |-> "returned", fn |-> fn, i |-> i, arg |-> arg, val |-> val]

\* related_keywords_all.append(kws) in pass i of the loop
Appended(i, url, kws) == [ev |-> "append", i |-> i, url |-> url, kws |-> kws]

\* an exception leaving fn, raised when the GET answered with kind `on`
Raised(fn, exc, on) == [ev |-> "raised", fn |-> fn, exc |-> exc, on |-> on]

NoValue == <<>>

NotCalled == [fn |-> "none"]

-----------------------------------------------------------------------------
(* The process *)

Init ==
    /\ pc = "import"
    /\ API_KEY \in KeyValues
    /\ SEARCH_ENGINE_ID \in CxValues
    /\ stopwords_present \in BOOLEAN
    /\ blog_url = ""
    /\ blog_text = NoValue
    /\ existing_keywords = NoValue
    /\ blog_topic = NoValue
    /\ related_blog_urls = NoValue
    /\ idx = 0
    /\ related_keywords_all = NoValue
    /\ new_suggestions = NoValue
    /\ log = <<>>
    /\ args = NotCalled
    /\ ret = NoValue

\* line 14: nltk.download('stopwords') as the module is loaded.  It reports a
\* failed download and returns; the corpus is then present only if it was.
Import ==
    /\ pc = "import"
    /\ \E downloaded \in BOOLEAN :
          /\ stopwords_present' = (stopwords_present \/ downloaded)
          /\ log' = Append(log, Net("download", "stopwords",
                                    IF downloaded THEN "ok" ELSE "failed"))
    /\ pc' = "main"
    /\ UNCHANGED <<API_KEY, SEARCH_ENGINE_ID, blog_url, blog_text,
                   existing_keywords, blog_topic, related_blog_urls, idx,
                   related_keywords_all, new_suggestions, args, ret>>

\* the condition of line 111
CredentialsMissing ==
    API_KEY = PLACEHOLDER_KEY \/ SEARCH_ENGINE_ID = PLACEHOLDER_CX

\* lines 111-115
ConfigCheck ==
    /\ pc = "main"
    /\ IF CredentialsMissing
       THEN /\ log' = Append(log, Out("config_error", NoValue))
            /\ pc' = "aborted"
            /\ UNCHANGED blog_url
       ELSE /\ \E u \in Urls : blog_url' = u
            /\ pc' = "fetch_source"
            /\ UNCHANGED log
    /\ UNCHANGED <<API_KEY, SEARCH_ENGINE_ID, stopwords_present, blog_text,
                   existing_keywords, blog_topic, related_blog_urls, idx,
                   related_keywords_all, new_suggestions, args, ret>>

\* what fetch_blog_text(url) logs when the GET answers r, up to its return
FetchTextLog(url, r) ==
    <<Out("fetching", url), Net("text", url, r.kind)>>
        \o (IF r.kind = "request_exception" THEN <<Out("fetch_error", url)>> ELSE <<>>)

\* a mutant: the test is "blog_text is None", which "" never passes
IsEmptyText_is_none(text) == FALSE

\* the test of line 119: not blog_text
IsEmptyText(text) == text = <<>>

\* lines 118-121
FetchSource ==
    /\ pc = "fetch_source"
    /\ \E r \in Responses :
          IF r.kind = "other_exception"
          THEN /\ log' = log \o FetchTextLog(blog_url, r)
                             \o <<Raised("fetch_blog_text", "Exception", r.kind)>>
               /\ pc' = "crashed"
               /\ UNCHANGED blog_text
          ELSE LET fetched == log \o FetchTextLog(blog_url, r)
                       \o <<Returned("fetch_blog_text", 0, blog_url, fetch_blog_text(r))>>
               IN /\ blog_text' = fetch_blog_text(r)
                  /\ IF IsEmptyText(blog_text')
                     THEN /\ log' = Append(fetched, Out("exit_no_content", NoValue))
                          /\ pc' = "aborted"
                     ELSE /\ log' = fetched
                          /\ pc' = "extract_source"
    /\ UNCHANGED <<API_KEY, SEARCH_ENGINE_ID, stopwords_present, blog_url,
                   existing_keywords, blog_topic, related_blog_urls, idx,
                   related_keywords_all, new_suggestions, args, ret>>

\* the texts fetch_blog_text can return
PageTexts == {fetch_blog_text(r) : r \in Responses \ {[kind |-> "other_exception"]}}

\* extract_keywords on the texts of the pages, with the default top_n
KeywordsOf == [t \in PageTexts |-> extract_keywords(t, DEFAULT_TOP_N)]

\* whether extract_keywords prints the warning of line 46 on a page text
WarnsOf ==
    [t \in PageTexts |-> Strip(Preprocess(t)) # <<>> /\ RaisesValueError(Preprocess(t))]

\* len(text.strip()) of the page texts
TrimmedLenOf == [t \in PageTexts |-> Len(Strip(t))]

\* what extract_keywords(text) logs
ExtractLog(text) ==
    <<Extracted(text)>>
        \o (IF WarnsOf[text] THEN <<Out("extract_warning", NoValue)>> ELSE <<>>)

\* lines 123-125.  stopwords.words('english') of line 33 raises LookupError
\* when the corpus is absent, and nothing here catches it.
ExtractSource ==
    /\ pc = "extract_source"
    /\ IF ~stopwords_present
       THEN /\ pc' = "crashed"
            /\ log' = Append(log, Raised("extract_keywords", "LookupError", ""))
            /\ UNCHANGED existing_keywords
       ELSE /\ existing_keywords' = KeywordsOf[blog_text]
            /\ log' = log \o ExtractLog(blog_text)
                          \o <<Out("existing_header", NoValue),
                               Out("existing_keywords", existing_keywords')>>
            /\ pc' = "fetch_title"
    /\ UNCHANGED <<API_KEY, SEARCH_ENGINE_ID, stopwords_present, blog_url,
                   blog_text, blog_topic, related_blog_urls, idx,
                   related_keywords_all, new_suggestions, args, ret>>

\* what fetch_blog_title(url) logs when the GET answers r, up to its return
FetchTitleLog(url, r) ==
    <<Net("title", url, r.kind)>>
        \o (IF r.kind = "request_exception" THEN <<Out("title_error", url)>> ELSE <<>>)

\* lines 128-134
FetchTitle ==
    /\ pc = "fetch_title"
    /\ \E r \in Responses :
          IF r.kind = "other_exception"
          THEN /\ log' = log \o FetchTitleLog(blog_url, r)
                             \o <<Raised("fetch_blog_title", "Exception", r.kind)>>
               /\ pc' = "crashed"
               /\ UNCHANGED blog_topic
          ELSE /\ blog_topic' = IF IsEmptyText(fetch_blog_title(r))
                                THEN FallbackTopic(blog_url)
                                ELSE fetch_blog_title(r)
               /\ log' = log \o FetchTitleLog(blog_url, r)
                             \o <<Returned("fetch_blog_title", 0, blog_url,
                                           fetch_blog_title(r))>>
                             \o (IF IsEmptyText(fetch_blog_title(r))
                                 THEN <<Out("fallback_notice", NoValue)>> ELSE <<>>)
                             \o <<Out("topic_header", NoValue), Out("topic", blog_topic')>>
               /\ pc' = "search"
    /\ UNCHANGED <<API_KEY, SEARCH_ENGINE_ID, stopwords_present, blog_url,
                   blog_text, existing_keywords, related_blog_urls, idx,
                   related_keywords_all, new_suggestions, args, ret>>

\* def get_top_google_results(query), lines 64-94, when the GET answers r:
\* whether an exception leaves the function, the list returned if none does,
\* and what is printed after the GET.  A body that is not JSON makes
\* response.json() raise an exception that is a requests.RequestException in
\* some versions of requests and only a ValueError in others.
get_top_google_results(r, json_error_is_request_exception) ==
    CASE r.kind = "items" ->
            [raises |-> FALSE, exc |-> "", links |-> r.links, out |-> <<>>]
      [] r.kind = "no_items" ->
            [raises |-> FALSE, exc |-> "", links |-> <<>>,
             out |-> <<Out("no_items_warning", NoValue)>>]
      [] r.kind = "http_error" ->
            [raises |-> FALSE, exc |-> "", links |-> <<>>,
             out |-> <<Out("search_error", NoValue), Out("response_text", NoValue)>>]
      [] r.kind = "bad_json" ->
            IF json_error_is_request_exception
            THEN [raises |-> FALSE, exc |-> "", links |-> <<>>,
                  out |-> <<Out("search_error", NoValue), Out("response_text", NoValue)>>]
            ELSE [raises |-> TRUE, exc |-> "ValueError", links |-> <<>>, out |-> <<>>]
      \* line 93 reads response, which line 78 never bound
      [] r.kind = "no_response" ->
            [raises |-> TRUE, exc |-> "UnboundLocalError", links |-> <<>>,
             out |-> <<Out("search_error", NoValue)>>]

\* lines 137-144
Search ==
    /\ pc = "search"
    /\ \E r \in SearchResponses, v \in BOOLEAN :
          LET res == get_top_google_results(r, v)
              called == log \o <<Out("searching", blog_topic),
                                 Net("search", blog_topic, r.kind)>>
                            \o res.out
          IN IF res.raises
             THEN /\ log' = Append(called, Raised("get_top_google_results", res.exc, r.kind))
                  /\ pc' = "crashed"
                  /\ UNCHANGED <<related_blog_urls, related_keywords_all, idx>>
             ELSE /\ related_blog_urls' = res.links
                  /\ log' = called
                        \o <<Returned("get_top_google_results", 0, blog_topic, res.links),
                             Out("urls_header", NoValue)>>
                        \o [i \in 1..Len(res.links) |-> Out("url", res.links[i])]
                        \o <<Out("analyzing_header", NoValue)>>
                  /\ related_keywords_all' = <<>>
                  /\ idx' = 1
                  /\ pc' = "competitors"
    /\ UNCHANGED <<API_KEY, SEARCH_ENGINE_ID, stopwords_present, blog_url,
                   blog_text, existing_keywords, blog_topic, new_suggestions,
                   args, ret>>

\* a mutant: the text is not trimmed before it is measured
InsufficientContent_untrimmed(text) == Len(text) < MIN_CONTENT_LEN

\* the test of line 152
InsufficientContent(text) == TrimmedLenOf[text] < MIN_CONTENT_LEN

\* a mutant: the test compares identities, and the two strings are not one
\* object
IsOriginal_by_identity(url) == FALSE

\* the test of line 146
IsOriginal(url) == url = blog_url

\* lines 145-158: one pass of the loop over related_blog_urls
Competitor ==
    /\ pc = "competitors"
    /\ idx <= Len(related_blog_urls)
    /\ LET url == related_blog_urls[idx]
       IN IF IsOriginal(url)
          THEN /\ log' = Append(log, Out("skip_original", url))
               /\ UNCHANGED related_keywords_all
          ELSE \E r \in Responses :
                  IF r.kind = "other_exception"
                  THEN /\ log' = log \o FetchTextLog(url, r) \o <<Out("skip_error", url)>>
                       /\ UNCHANGED related_keywords_all
                  ELSE LET text == fetch_blog_text(r)
                           fetched == log \o FetchTextLog(url, r)
                                          \o <<Returned("fetch_blog_text", idx, url, text)>>
                       IN IF InsufficientContent(text)
                          THEN /\ log' = Append(fetched, Out("skip_insufficient", url))
                               /\ UNCHANGED related_keywords_all
                          ELSE IF ~stopwords_present
                          THEN /\ log' = Append(fetched, Out("skip_error", url))
                               /\ UNCHANGED related_keywords_all
                          ELSE /\ related_keywords_all' =
                                      Append(related_keywords_all, KeywordsOf[text])
                               /\ log' = fetched \o ExtractLog(text)
                                            \o <<Appended(idx, url, KeywordsOf[text])>>
    /\ idx' = idx + 1
    /\ UNCHANGED <<pc, API_KEY, SEARCH_ENGINE_ID, stopwords_present, blog_url,
                   blog_text, existing_keywords, blog_topic, related_blog_urls,
                   new_suggestions, args, ret>>

\* lines 161-168
Report ==
    /\ pc = "competitors"
    /\ idx > Len(related_blog_urls)
    /\ \E l \in suggest_new_keywords(existing_keywords, related_keywords_all) :
          /\ new_suggestions' = l
          /\ log' = log \o <<Out("suggest_header", NoValue),
                             IF l # <<>> THEN Out("suggestions", l)
                                         ELSE Out("none_found", NoValue)>>
    /\ pc' = "done"
    /\ UNCHANGED <<API_KEY, SEARCH_ENGINE_ID, stopwords_present, blog_url,
                   blog_text, existing_keywords, blog_topic, related_blog_urls,
                   idx, related_keywords_all, args, ret>>

Next ==
    \/ Import
    \/ ConfigCheck
    \/ FetchSource
    \/ ExtractSource
    \/ FetchTitle
    \/ Search
    \/ Competitor
    \/ Report

Spec == Init /\ [][Next]_vars

-----------------------------------------------------------------------------
(* Stand-alone calls of the two pure functions *)

\* the characters of the texts given to a stand-alone extract_keywords call
ExtractChars == {"a", "T", " "}

\* the terms given to a stand-alone suggest_new_keywords call
Terms == {"seo", "tips"}

\* main() is not running: its variables stay as at the start
MainIdle ==
    /\ API_KEY = "AIza-key"
    /\ SEARCH_ENGINE_ID = "80a2-cx"
    /\ blog_url = ""
    /\ blog_text = NoValue
    /\ existing_keywords = NoValue
    /\ blog_topic = NoValue
    /\ related_blog_urls = NoValue
    /\ idx = 0
    /\ related_keywords_all = NoValue
    /\ new_suggestions = NoValue
    /\ log = <<>>

MainVars ==
    <<API_KEY, SEARCH_ENGINE_ID, stopwords_present, blog_url, blog_text,
      existing_keywords, blog_topic, related_blog_urls, idx,
      related_keywords_all, new_suggestions, log>>

InitExtract ==
    /\ pc = "call"
    /\ stopwords_present \in BOOLEAN
    /\ MainIdle
    /\ \E text \in SeqsUpTo(ExtractChars, MaxTextLen), top_n \in (0 - MaxTopN)..MaxTopN :
          args = [fn |-> "extract_keywords", text |-> text, top_n |-> top_n]
    /\ ret = NoValue

\* extract_keywords(text, top_n), lines 30-47; line 33 raises LookupError when
\* the corpus is absent
ExtractCall ==
    /\ pc = "call"
    /\ args.fn = "extract_keywords"
    /\ ret' = IF stopwords_present
              THEN [raised |-> FALSE, val |-> extract_keywords(args.text, args.top_n)]
              ELSE [raised |-> TRUE, val |-> "LookupError"]
    /\ pc' = "returned"
    /\ UNCHANGED <<MainVars, args>>

NextExtract == ExtractCall

SpecExtract == InitExtract /\ [][NextExtract]_vars

InitSuggest ==
    /\ pc = "call"
    /\ stopwords_present = TRUE
    /\ MainIdle
    /\ \E existing \in SeqsUpTo(Terms, MaxKws),
          related \in SeqsUpTo(SeqsUpTo(Terms, MaxKws), MaxBlogs) :
          args = [fn |-> "suggest_new_keywords", existing |-> existing,
                  related |-> related]
    /\ ret = NoValue

\* suggest_new_keywords(existing_keywords, related_blogs_keywords), lines 97-106
SuggestCall ==
    /\ pc = "call"
    /\ args.fn = "suggest_new_keywords"
    /\ \E l \in suggest_new_keywords(args.existing, args.related) :
          ret' = [raised |-> FALSE, val |-> l]
    /\ pc' = "returned"
    /\ UNCHANGED <<MainVars, args>>

NextSuggest == SuggestCall

SpecSuggest == InitSuggest /\ [][NextSuggest]_vars

-----------------------------------------------------------------------------
(* Reading the history *)

NetCalls == {i \in DOMAIN log : log[i].ev = "net"}

SearchCalls == {i \in NetCalls : log[i].kind = "search"}

Extractions == {i \in DOMAIN log : log[i].ev = "extract"}

Prints(what) == {i \in DOMAIN log : log[i].ev = "print" /\ log[i].what = what}

\* the returns of fn in pass k of the loop (k = 0: outside the loop)
Returns(fn, k) ==
    {i \in DOMAIN log : log[i].ev = "returned" /\ log[i].fn = fn /\ log[i].i = k}

CompetitorReturns ==
    {i \in DOMAIN log : log[i].ev = "returned" /\ log[i].fn = "fetch_blog_text"
                            /\ log[i].i >= 1}

Appends == {i \in DOMAIN log : log[i].ev = "append"}

Escapes(fn) == {i \in DOMAIN log : log[i].ev = "raised" /\ log[i].fn = fn}

NoDuplicates(l) == \A i, j \in DOMAIN l : l[i] = l[j] => i = j

\* the report's sections, in the order printed
SectionTags == {"existing_keywords", "topic", "urls_header", "url",
                "suggestions", "none_found"}

IsSection(e) == e.ev = "print" /\ e.what \in SectionTags

Sections == SelectSeq(log, IsSection)

-----------------------------------------------------------------------------
(* C1 *)

\* C1: a stand-alone call suggest_new_keywords(existing, related) returns a
\* list that, as a set, is the union of the lists of related minus the terms
\* of existing, and holds no term twice.
C1_SuggestIsUnionMinusExisting ==
    (pc = "returned" /\ args.fn = "suggest_new_keywords") =>
        /\ ~ret.raised
        /\ SeqToSet(ret.val) =
              UNION {SeqToSet(args.related[k]) : k \in DOMAIN args.related}
                    \ SeqToSet(args.existing)
        /\ NoDuplicates(ret.val)

\* two related lists share a term, one term is already in existing, and one
\* term is new
C1_Witness ==
    /\ pc = "returned" /\ args.fn = "suggest_new_keywords"
    /\ Len(args.related) = 2
    /\ args.related[1] = <<"seo", "tips">>
    /\ args.related[2] = <<"tips", "tips">>
    /\ args.existing = <<"seo">>
    /\ ret.val = <<"tips">>

-----------------------------------------------------------------------------
(* C2 *)

\* C2: get_top_google_results never raises to its caller: when the search GET
\* gets a non-2xx status or no response at all, no exception leaves the
\* function and it returns an empty list.
C2_SearchNeverRaises ==
    \A i \in SearchCalls :
        log[i].answer \in {"http_error", "no_response"} =>
            /\ Escapes("get_top_google_results") = {}
            /\ \E j \in Returns("get_top_google_results", 0) :
                  j > i /\ log[j].val = <<>>

-----------------------------------------------------------------------------
(* C3 *)

\* C3: if the fetch of the source text returns the empty text, main() prints
\* that it exits and stops: after that return there is no network call and
\* no keyword extraction, in this state and so in every later one.
C3_EmptySourceAborts ==
    \A i \in Returns("fetch_blog_text", 0) :
        log[i].val = <<>> =>
            /\ pc = "aborted"
            /\ \A j \in NetCalls \cup Extractions : j < i
            /\ log[Len(log)] = Out("exit_no_content", NoValue)
            /\ Cardinality(Prints("exit_no_content")) = 1

\* main() stopped on a page that was fetched and has no paragraph text
C3_Witness ==
    /\ pc = "aborted"
    /\ \E i \in Returns("fetch_blog_text", 0) :
          /\ log[i].val = <<>>
          /\ log[i - 1].ev = "net"
          /\ log[i - 1].answer = "page"

-----------------------------------------------------------------------------
(* C4 *)

\* a credential left at its placeholder
CredentialUnset ==
    API_KEY = PLACEHOLDER_KEY \/ SEARCH_ENGINE_ID = PLACEHOLDER_CX

\* C4: when a credential is unset, the process makes no network call of any
\* kind, and once main() has run its check it has printed the diagnostic and
\* stopped.
C4_NoNetworkWithoutCredentials ==
    CredentialUnset =>
        /\ NetCalls = {}
        /\ pc \notin {"import", "main"} =>
              pc = "aborted" /\ Prints("config_error") # {}

-----------------------------------------------------------------------------
(* C5 *)

\* the configuration check passed and the source fetch returned a text that
\* is not empty
SourceAccepted ==
    \E i \in Returns("fetch_blog_text", 0) : log[i].val # <<>>

\* C5: once the source text is accepted, the run goes on to the report
\* whatever fails: it is done or it has a next step.
C5_RunReachesDone == SourceAccepted => (pc = "done" \/ ENABLED Next)

-----------------------------------------------------------------------------
(* C6 *)

\* C6: a result URL equal to the source URL is never fetched as a competitor
\* and never adds a keyword list: the source URL is fetched for its text
\* once, by the source fetch, and every list of related_keywords_all was
\* appended for another URL.
C6_OriginalNeverAggregated ==
    pc \in {"competitors", "done"} =>
        /\ Cardinality({i \in NetCalls : log[i].kind = "text" /\ log[i].url = blog_url}) = 1
        /\ \A i \in Appends : log[i].url # blog_url
        /\ Len(related_keywords_all) = Cardinality(Appends)
        /\ \A k \in 1..(idx - 1) :
              related_blog_urls[k] = blog_url =>
                 /\ \A i \in Appends \cup CompetitorReturns : log[i].i # k

\* the source URL came back twice from the search, around another URL whose
\* page was aggregated
C6_Witness ==
    /\ pc = "done"
    /\ Len(related_blog_urls) >= 2
    /\ related_blog_urls[1] = blog_url
    /\ related_blog_urls[2] = blog_url
    /\ Cardinality(Prints("skip_original")) = 2

-----------------------------------------------------------------------------
(* C7 *)

\* C7: a competitor text whose trimmed length is below 100 adds no keyword
\* list, and one of trimmed length 100 or more, fetched from a URL other
\* than the source URL, adds exactly one; nothing else adds a list.
C7_ContentThreshold ==
    /\ \A i \in CompetitorReturns :
          LET added == {j \in Appends : log[j].i = log[i].i}
          IN IF TrimmedLenOf[log[i].val] < MIN_CONTENT_LEN
             THEN added = {}
             ELSE log[i].arg # blog_url =>
                     /\ Cardinality(added) = 1
                     /\ \A j \in added : j > i
    /\ \A j \in Appends : \E i \in CompetitorReturns : log[i].i = log[j].i
    /\ pc \in {"competitors", "done"} =>
          Len(related_keywords_all) = Cardinality(Appends)

\* one run met a text of 99 characters after trimming, which added nothing,
\* and a text of exactly 100, which added one list
C7_Witness ==
    /\ pc = "done"
    /\ Len(related_keywords_all) = 1
    /\ \E i, j \in CompetitorReturns :
          /\ Len(log[i].val) = 100 /\ TrimmedLenOf[log[i].val] = 99
          /\ TrimmedLenOf[log[j].val] = 100

-----------------------------------------------------------------------------
(* C8 *)

\* C8: when the search gives no URL, the loop fetches no competitor, nothing
\* is suggested, and the report ends with the none-found message and prints
\* no keyword list.
C8_NoResultsNoSuggestions ==
    (pc \in {"competitors", "done"} /\ related_blog_urls = <<>>) =>
        /\ Cardinality({i \in NetCalls : log[i].kind = "text"}) = 1
        /\ CompetitorReturns = {}
        /\ Appends = {}
        /\ related_keywords_all = <<>>
        /\ pc = "done" =>
              /\ new_suggestions = <<>>
              /\ log[Len(log)] = Out("none_found", NoValue)
              /\ Prints("suggestions") = {}

\* a run ended after a search that was recovered from an HTTP failure, with
\* source keywords that a wrong difference would have suggested
C8_Witness ==
    /\ pc = "done"
    /\ related_blog_urls = <<>>
    /\ existing_keywords # <<>>
    /\ \E i \in SearchCalls : log[i].answer = "http_error"

-----------------------------------------------------------------------------
(* C9 *)

\* C9: a run that is done printed its sections once each and in order: the
\* source keywords, the topic (the title, or 'related topics for <source
\* url>' when the title fetch returned the empty text), the URLs the search
\* returned in their order, then the suggestions or the none-found message;
\* and the source keywords were printed before the title GET and the search.
C9_ReportOrder ==
    pc = "done" =>
        LET n == Len(related_blog_urls)
            printed == Sections
        IN /\ Len(printed) = n + 4
           /\ printed[1] = Out("existing_keywords", existing_keywords)
           /\ \E i \in Returns("fetch_blog_title", 0) :
                 printed[2] = Out("topic", IF log[i].val = <<>>
                                           THEN <<"related topics for ", blog_url>>
                                           ELSE log[i].val)
           /\ printed[3] = Out("urls_header", NoValue)
           /\ \E i \in Returns("get_top_google_results", 0) :
                 /\ Len(log[i].val) = n
                 /\ \A k \in 1..n : printed[3 + k] = Out("url", log[i].val[k])
           /\ printed[n + 4] = IF new_suggestions # <<>>
                               THEN Out("suggestions", new_suggestions)
                               ELSE Out("none_found", NoValue)
           /\ \A i \in Prints("existing_keywords"), j \in NetCalls :
                 log[j].kind \in {"title", "search"} => i < j

\* a run that is done used the fallback topic, listed two URLs and
\* suggested keywords
C9_Witness ==
    /\ pc = "done"
    /\ blog_topic = <<"related topics for ", blog_url>>
    /\ Len(related_blog_urls) = 2
    /\ related_blog_urls[1] # related_blog_urls[2]
    /\ Len(new_suggestions) >= 2

-----------------------------------------------------------------------------
(* C10 *)

\* the weights of the returned terms never rise
DescendingWeight(kws, text) ==
    \A i, j \in DOMAIN kws :
        i < j => Score(kws[i], Preprocess(text)) >= Score(kws[j], Preprocess(text))

\* C10: for every text and every integer top_n, negative ones too, a
\* stand-alone call extract_keywords(text, top_n) that returns gives at most
\* top_n terms (none, when top_n is not positive), no term twice, by
\* descending weight.
C10_AtMostTopN ==
    (pc = "returned" /\ args.fn = "extract_keywords" /\ ~ret.raised) =>
        /\ Len(ret.val) <= (IF args.top_n > 0 THEN args.top_n ELSE 0)
        /\ NoDuplicates(ret.val)
        /\ DescendingWeight(ret.val, args.text)

\* What the slice of line 44 does keep of C10: the terms are distinct and by
\* descending weight for every top_n, and at most top_n when top_n >= 0.
C10_HoldsWhenNotNegative ==
    (pc = "returned" /\ args.fn = "extract_keywords" /\ ~ret.raised) =>
        /\ args.top_n >= 0 => Len(ret.val) <= args.top_n
        /\ NoDuplicates(ret.val)
        /\ DescendingWeight(ret.val, args.text)

====
